---------------------------- MODULE Spec2Model ----------------------------
(***************************************************************************)
(* Model of the pagination/filter query builder (package pagination).      *)
(*                                                                         *)
(* A Go string is modelled as a sequence of one-character strings, so that *)
(* strings.Split, strings.SplitN, strings.TrimSpace, strings.ReplaceAll    *)
(* and strings.Join are computed character by character.  A Go map is a    *)
(* function whose domain is its key set.  The gorm query builder *gorm.DB  *)
(* is the record db: the errors recorded by db.AddError, the predicates    *)
(* appended by db.Where and the ordering clauses appended by db.Order.     *)
(* allowedColumns is the set of keys the map[string]bool holds as true.    *)
(***************************************************************************)
EXTENDS Integers, Sequences, FiniteSets, TLC

VARIABLES
    pc,             \* "ready", or the function that was called and returned
    allowedColumns, \* the allow-list handed to the call
    db,             \* the query builder
    params,         \* the raw parameter string handed to the call
    paramMap,       \* the mapping the tokenizer returned
    column,         \* the argument of parseColumn
    quoted,         \* the result of parseColumn
    resultCount,    \* the arguments of Count, and
    limit,
    pageCount,      \* its result
    eqParams,       \* the raw strings handed to parseOr,
    likeParams,
    eqMap,          \* the mappings it parsed them into,
    likeMap,
    conditions,     \* and the conditions and values it collected
    values

\* The arguments and the local variables of parseOr.
orVars == <<eqParams, likeParams, eqMap, likeMap, conditions, values>>

vars == <<pc, allowedColumns, db, params, paramMap, column, quoted,
          resultCount, limit, pageCount, orVars>>

(***************************************************************************)
(* Bounds of the model.                                                    *)
(***************************************************************************)
\* Longest raw parameter string handed to a tokenizer.
MaxLen == 7

\* Longest identifier handed to parseColumn.
MaxColumnLen == 5

\* Most values one searchBetween string carries, over all its clauses.
MaxBetweenValues == 3

\* Most clauses of one sortBy string.
MaxSortClauses == 2

\* Most clauses the searchEqOr and searchLikeOr strings carry together.
MaxOrClauses == 3

\* Count is called with every total up to MaxTotal, with the totals next to
\* the powers of two of LargeExponents, and with every limit up to MaxLimit.
MaxTotal == 40
MaxLimit == 10

(***************************************************************************)
(* Strings.                                                                *)
(***************************************************************************)
Least(S) == CHOOSE i \in S : \A j \in S : i <= j

Greatest(S) == CHOOSE i \in S : \A j \in S : j <= i

\* strings.Split(s, sep) for a one-character separator: the substrings
\* between the separators, in order; never empty (Split("", sep) = [""]).
RECURSIVE Split(_, _)
Split(s, sep) ==
    IF \A i \in 1..Len(s) : s[i] # sep THEN <<s>>
    ELSE LET i == CHOOSE j \in 1..Len(s) :
                      s[j] = sep /\ \A k \in 1..(j - 1) : s[k] # sep
         IN  <<SubSeq(s, 1, i - 1)>> \o Split(SubSeq(s, i + 1, Len(s)), sep)

\* A split at every separator where the code splits at the first only.
SplitEvery(s, sep) == Split(s, sep)

\* strings.SplitN(s, sep, 2): split at the first separator only.
SplitN2(s, sep) ==
    IF \A i \in 1..Len(s) : s[i] # sep THEN <<s>>
    ELSE LET i == CHOOSE j \in 1..Len(s) :
                      s[j] = sep /\ \A k \in 1..(j - 1) : s[k] # sep
         IN  <<SubSeq(s, 1, i - 1), SubSeq(s, i + 1, Len(s))>>

\* strings.Join(parts, sep)
RECURSIVE Join(_, _)
Join(parts, sep) ==
    IF parts = <<>> THEN <<>>
    ELSE IF Len(parts) = 1 THEN parts[1]
    ELSE parts[1] \o <<sep>> \o Join(Tail(parts), sep)

IsSpace(c) == c \in {" ", "\t"}

\* strings.TrimSpace(s): s without its leading and trailing white space.
TrimSpace(s) ==
    LET keep == {i \in 1..Len(s) : ~IsSpace(s[i])}
    IN  IF keep = {} THEN <<>>
        ELSE SubSeq(s, CHOOSE i \in keep : \A j \in keep : i <= j,
                       CHOOSE i \in keep : \A j \in keep : j <= i)

Quote == "\""

NotQuote(c) == c # Quote

\* strings.ReplaceAll(s, "\"", "")
RemoveQuotes(s) == SelectSeq(s, NotQuote)

(***************************************************************************)
(* Maps.                                                                   *)
(***************************************************************************)
EmptyMap == [k \in {} |-> <<>>]

\* What a first-write-wins mapping would do: keep the entry it has.
MapPutFirst(m, key, val) ==
    [k \in DOMAIN m \cup {key} |-> IF k \in DOMAIN m THEN m[k] ELSE val]

\* paramMap[key] = val
MapPut(m, key, val) ==
    [k \in DOMAIN m \cup {key} |-> IF k = key THEN val ELSE m[k]]

(***************************************************************************)
(* Identifier quoter.                                                      *)
(***************************************************************************)
\* The body of the loop of parseColumn over parts, for one part p.
QuotePart(p) ==
    LET t == TrimSpace(p)
    IN  IF t = <<>> THEN <<Quote, Quote>>
        ELSE <<Quote>> \o t \o <<Quote>>

\* parseColumn without the removal of the quotes the input carries.
ParseColumnKeepingQuotes(c) ==
    LET cleaned == TrimSpace(c)
        parts   == Split(cleaned, ".")
    IN  IF cleaned = <<>> THEN <<Quote, Quote>>
        ELSE Join([i \in 1..Len(parts) |-> QuotePart(parts[i])], ".")

\* parseColumn dropping the empty parts instead of quoting them.
ParseColumnDroppingEmpty(c) ==
    LET cleaned == TrimSpace(c)
        parts   == Split(RemoveQuotes(cleaned), ".")
        IsFull(p) == TrimSpace(p) # <<>>
        full    == SelectSeq(parts, IsFull)
    IN  IF cleaned = <<>> THEN <<Quote, Quote>>
        ELSE Join([i \in 1..Len(full) |-> QuotePart(full[i])], ".")

parseColumn(c) ==
    LET cleaned == TrimSpace(c)
        parts   == Split(RemoveQuotes(cleaned), ".")
    IN  IF cleaned = <<>> THEN <<Quote, Quote>>
        ELSE Join([i \in 1..Len(parts) |-> QuotePart(parts[i])], ".")

(***************************************************************************)
(* Tokenizer.                                                              *)
(***************************************************************************)
ErrInvalidFormat == "cannot parse invalid format"
ErrColumnNotAllowed == "column not allowed"

\* The loop body of parseSingleValueParams without its allow-list check.
SingleValueStepNoAllowList(acc, paramSearchPart, allowed) ==
    LET valuePairs == Split(paramSearchPart, ":")
        malformed  == Len(valuePairs) # 2 \/ valuePairs[1] = <<>>
    IN  IF malformed
        THEN [acc EXCEPT !.errors = Append(@, ErrInvalidFormat)]
        ELSE IF valuePairs[2] = <<>> THEN acc
        ELSE [acc EXCEPT !.paramMap = MapPut(@, valuePairs[1], valuePairs[2])]

\* One iteration of the loop of parseSingleValueParams over paramSearchPart.
\* acc holds the paramMap built so far and the errors added to db so far.
SingleValueStep(acc, paramSearchPart, allowed) ==
    LET valuePairs == Split(paramSearchPart, ":")
        malformed  == Len(valuePairs) # 2 \/ valuePairs[1] = <<>>
    IN  IF malformed
        THEN [acc EXCEPT !.errors = Append(@, ErrInvalidFormat)]
        ELSE LET key == valuePairs[1]
                 val == valuePairs[2]
             IN  IF val = <<>> THEN acc
                 ELSE IF key \notin allowed
                 THEN [acc EXCEPT !.errors = Append(@, ErrColumnNotAllowed)]
                 ELSE [acc EXCEPT !.paramMap = MapPut(@, key, val)]

\* The loop body of parseMultiValueParams with the allow-list check made
\* before the empty-value check.
MultiValueStepAllowListFirst(acc, paramSearchPart, allowed) ==
    LET valuePairs == SplitN2(paramSearchPart, ":")
        malformed  == Len(valuePairs) # 2 \/ valuePairs[1] = <<>>
    IN  IF malformed
        THEN [acc EXCEPT !.errors = Append(@, ErrInvalidFormat)]
        ELSE LET key == valuePairs[1]
                 val == valuePairs[2]
             IN  IF key \notin allowed
                 THEN [acc EXCEPT !.errors = Append(@, ErrColumnNotAllowed)]
                 ELSE IF val = <<>> THEN acc
                 ELSE [acc EXCEPT !.paramMap = MapPut(@, key, Split(val, ";"))]

\* One iteration of the loop of parseMultiValueParams.
MultiValueStep(acc, paramSearchPart, allowed) ==
    LET valuePairs == SplitN2(paramSearchPart, ":")
        malformed  == Len(valuePairs) # 2 \/ valuePairs[1] = <<>>
    IN  IF malformed
        THEN [acc EXCEPT !.errors = Append(@, ErrInvalidFormat)]
        ELSE LET key == valuePairs[1]
                 val == valuePairs[2]
             IN  IF val = <<>> THEN acc
                 ELSE IF key \notin allowed
                 THEN [acc EXCEPT !.errors = Append(@, ErrColumnNotAllowed)]
                 ELSE [acc EXCEPT !.paramMap = MapPut(@, key, Split(val, ";"))]

\* The loop of parseSingleValueParams leaving at the first error.
RECURSIVE SingleValueLoopStoppingAtError(_, _, _, _)
SingleValueLoopStoppingAtError(acc, paramSearchParts, i, allowed) ==
    IF i > Len(paramSearchParts) \/ acc.errors # <<>> THEN acc
    ELSE SingleValueLoopStoppingAtError(
             SingleValueStep(acc, paramSearchParts[i], allowed),
             paramSearchParts, i + 1, allowed)

\* for _, paramSearchPart := range paramSearchParts, from index i on.
RECURSIVE SingleValueLoop(_, _, _, _)
SingleValueLoop(acc, paramSearchParts, i, allowed) ==
    IF i > Len(paramSearchParts) THEN acc
    ELSE SingleValueLoop(SingleValueStep(acc, paramSearchParts[i], allowed),
                         paramSearchParts, i + 1, allowed)

RECURSIVE MultiValueLoop(_, _, _, _)
MultiValueLoop(acc, paramSearchParts, i, allowed) ==
    IF i > Len(paramSearchParts) THEN acc
    ELSE MultiValueLoop(MultiValueStep(acc, paramSearchParts[i], allowed),
                        paramSearchParts, i + 1, allowed)

\* parseSingleValueParams(db, params, allowedColumns): the returned paramMap
\* and the errors it adds to db, in the order it adds them.
parseSingleValueParams(p, allowed) ==
    LET start == [paramMap |-> EmptyMap, errors |-> <<>>]
    IN  IF p # <<>> THEN SingleValueLoop(start, Split(p, ","), 1, allowed)
        ELSE start

\* parseMultiValueParams(db, params, allowedColumns).
parseMultiValueParams(p, allowed) ==
    LET start == [paramMap |-> EmptyMap, errors |-> <<>>]
    IN  IF p # <<>> THEN MultiValueLoop(start, Split(p, ","), 1, allowed)
        ELSE start

(***************************************************************************)
(* time.Parse(time.RFC3339, value).                                        *)
(*                                                                         *)
(* The date, the time of day, an optional fractional second and the zone   *)
(* (Z or a signed hh:mm offset) are read at fixed positions, each number   *)
(* checked against its range.  A time is the record of what was read; the  *)
(* zero time.Time is returned with every error.                            *)
(***************************************************************************)
Digits == <<"0", "1", "2", "3", "4", "5", "6", "7", "8", "9">>

IsDigit(c) == \E d \in 1..10 : Digits[d] = c

DigitValue(c) == (CHOOSE d \in 1..10 : Digits[d] = c) - 1

RECURSIVE Decimal(_)
Decimal(s) ==
    IF s = <<>> THEN 0
    ELSE 10 * Decimal(SubSeq(s, 1, Len(s) - 1)) + DigitValue(s[Len(s)])

\* parseUint: s as an unsigned decimal within min..max; min with ok = FALSE
\* otherwise.
ParseUint(s, min, max) ==
    IF \E i \in 1..Len(s) : ~IsDigit(s[i]) THEN [ok |-> FALSE, x |-> min]
    ELSE IF Decimal(s) < min \/ max < Decimal(s) THEN [ok |-> FALSE, x |-> min]
    ELSE [ok |-> TRUE, x |-> Decimal(s)]

IsLeap(year) == year % 4 = 0 /\ (year % 100 # 0 \/ year % 400 = 0)

DaysIn(month, year) ==
    IF month = 2 THEN (IF IsLeap(year) THEN 29 ELSE 28)
    ELSE IF month \in {4, 6, 9, 11} THEN 30 ELSE 31

ZeroTime ==
    [year |-> 1, month |-> 1, day |-> 1, hour |-> 0, min |-> 0, sec |-> 0,
     frac |-> <<>>, zoneOffset |-> 0]

ParseFailed == [ok |-> FALSE, time |-> ZeroTime]

\* What follows the seconds, s = value[19:]: the fraction and the zone.
ParseZone(s, t) ==
    LET hasFrac == Len(s) >= 2 /\ s[1] = "." /\ IsDigit(s[2])
        n       == IF hasFrac
                   THEN Greatest({k \in 2..Len(s) : \A i \in 2..k : IsDigit(s[i])})
                   ELSE 0
        zone    == SubSeq(s, n + 1, Len(s))
        at      == [t EXCEPT !.frac = SubSeq(s, 2, n)]
    IN  IF zone = <<"Z">> THEN [ok |-> TRUE, time |-> at]
        ELSE IF Len(zone) # 6 THEN ParseFailed
        ELSE LET hr == ParseUint(SubSeq(zone, 2, 3), 0, 23)
                 mm == ParseUint(SubSeq(zone, 5, 6), 0, 59)
                 secs == (hr.x * 60 + mm.x) * 60
             IN  IF ~hr.ok \/ ~mm.ok \/ zone[1] \notin {"-", "+"} \/ zone[4] # ":"
                 THEN ParseFailed
                 ELSE [ok |-> TRUE,
                       time |-> [at EXCEPT !.zoneOffset =
                                    IF zone[1] = "-" THEN -secs ELSE secs]]

ParseRFC3339(s) ==
    IF Len(s) < 19 THEN ParseFailed
    ELSE LET year  == ParseUint(SubSeq(s, 1, 4), 0, 9999)
             month == ParseUint(SubSeq(s, 6, 7), 1, 12)
             day   == ParseUint(SubSeq(s, 9, 10), 1, DaysIn(month.x, year.x))
             hour  == ParseUint(SubSeq(s, 12, 13), 0, 23)
             min   == ParseUint(SubSeq(s, 15, 16), 0, 59)
             sec   == ParseUint(SubSeq(s, 18, 19), 0, 59)
             ok    == /\ year.ok /\ month.ok /\ day.ok
                      /\ hour.ok /\ min.ok /\ sec.ok
                      /\ s[5] = "-" /\ s[8] = "-" /\ s[11] = "T"
                      /\ s[14] = ":" /\ s[17] = ":"
         IN  IF ~ok THEN ParseFailed
             ELSE ParseZone(SubSeq(s, 20, Len(s)),
                            [year |-> year.x, month |-> month.x, day |-> day.x,
                             hour |-> hour.x, min |-> min.x, sec |-> sec.x,
                             frac |-> <<>>, zoneOffset |-> 0])

(***************************************************************************)
(* Clause builders.  A Go map is ranged over in an order the runtime       *)
(* picks: the loops below follow the sequence of keys they are given, and  *)
(* the actions try every order.                                            *)
(***************************************************************************)
ErrNotTwoValues == "not exactly two values for between query"
ErrInvalidDateTime == "invalid date-time format"
ErrOrderNotAscDesc == "order not asc or desc"

BetweenText == <<" ", "B", "E", "T", "W", "E", "E", "N", " ", "?", " ", "A", "N", "D", " ", "?">>
DescText == <<" ", "D", "E", "S", "C">>
AscText == <<" ", "A", "S", "C">>
StrDesc == <<"d", "e", "s", "c">>
StrAsc == <<"a", "s", "c">>

\* The sequences that hold every element of S once.
Orders(S) == {o \in [1..Cardinality(S) -> S] : \A k \in S : \E i \in DOMAIN o : o[i] = k}

\* The loop body of parseSearchBetween reporting one error for each value
\* that does not parse.
BetweenStepErrorPerSide(acc, key, value) ==
    LET counted == IF Len(value) # 2
                   THEN [acc.db EXCEPT !.errors = Append(@, ErrNotTwoValues)]
                   ELSE acc.db
    IN  IF Len(value) < 2 THEN [db |-> counted, panicked |-> TRUE]
        ELSE LET start == ParseRFC3339(value[1])
                 end   == ParseRFC3339(value[2])
                 one   == IF ~start.ok
                          THEN [counted EXCEPT !.errors = Append(@, ErrInvalidDateTime)]
                          ELSE counted
                 two   == IF ~end.ok
                          THEN [one EXCEPT !.errors = Append(@, ErrInvalidDateTime)]
                          ELSE one
             IN  [db |-> [two EXCEPT !.wheres =
                            Append(@, [query |-> parseColumn(key) \o BetweenText,
                                       args  |-> <<start.time, end.time>>])],
                  panicked |-> FALSE]

\* The body of the loop of parseSearchBetween for the entry key: value.
\* value[1] of a one-element value is an index out of range: the goroutine
\* panics, after the length error was added and before anything is bound.
BetweenStep(acc, key, value) ==
    LET counted == IF Len(value) # 2
                   THEN [acc.db EXCEPT !.errors = Append(@, ErrNotTwoValues)]
                   ELSE acc.db
    IN  IF Len(value) < 2 THEN [db |-> counted, panicked |-> TRUE]
        ELSE LET start  == ParseRFC3339(value[1])
                 end    == ParseRFC3339(value[2])
                 parsed == IF ~start.ok \/ ~end.ok
                           THEN [counted EXCEPT !.errors = Append(@, ErrInvalidDateTime)]
                           ELSE counted
             IN  [db |-> [parsed EXCEPT !.wheres =
                            Append(@, [query |-> parseColumn(key) \o BetweenText,
                                       args  |-> <<start.time, end.time>>])],
                  panicked |-> FALSE]

\* for key, value := range paramMap, in the order of keys, from index i on.
RECURSIVE BetweenLoop(_, _, _, _)
BetweenLoop(acc, m, keys, i) ==
    IF i > Len(keys) \/ acc.panicked THEN acc
    ELSE BetweenLoop(BetweenStep(acc, keys[i], m[keys[i]]), m, keys, i + 1)

\* The loop body of parseSortBy comparing the direction without regard to
\* case.
SortStepAnyCase(d, key, value) ==
    IF value \in {StrDesc, <<"D", "E", "S", "C">>}
    THEN [d EXCEPT !.orders = Append(@, parseColumn(key) \o DescText)]
    ELSE IF value \in {StrAsc, <<"A", "S", "C">>}
    THEN [d EXCEPT !.orders = Append(@, parseColumn(key) \o AscText)]
    ELSE [d EXCEPT !.errors = Append(@, ErrOrderNotAscDesc)]

\* The body of the loop of parseSortBy for the entry key: value.
SortStep(d, key, value) ==
    IF value = StrDesc
    THEN [d EXCEPT !.orders = Append(@, parseColumn(key) \o DescText)]
    ELSE IF value = StrAsc
    THEN [d EXCEPT !.orders = Append(@, parseColumn(key) \o AscText)]
    ELSE [d EXCEPT !.errors = Append(@, ErrOrderNotAscDesc)]

RECURSIVE SortLoop(_, _, _, _)
SortLoop(d, m, keys, i) ==
    IF i > Len(keys) THEN d
    ELSE SortLoop(SortStep(d, keys[i], m[keys[i]]), m, keys, i + 1)

(***************************************************************************)
(* The merged OR group of parseOr.                                         *)
(***************************************************************************)
CastText == <<"C", "A", "S", "T", "(">>
EqText == <<" ", "A", "S", " ", "T", "E", "X", "T", ")", " ", "=", " ", "?">>
LikeText == <<" ", "A", "S", " ", "T", "E", "X", "T", ")", " ", "I", "L", "I", "K", "E", " ", "?">>
OrText == <<" ", "O", "R", " ">>
Percent == "%"

\* strings.Join(parts, sep) for a separator of any length
RECURSIVE JoinStr(_, _)
JoinStr(parts, sep) ==
    IF parts = <<>> THEN <<>>
    ELSE IF Len(parts) = 1 THEN parts[1]
    ELSE parts[1] \o sep \o JoinStr(Tail(parts), sep)

\* The body of the loop over eqMap: acc holds conditions and values.
EqOrStep(acc, key, value) ==
    [conditions |-> Append(acc.conditions, CastText \o parseColumn(key) \o EqText),
     values     |-> Append(acc.values, value)]

\* The body of the loop over likeMap.
LikeOrStep(acc, key, value) ==
    [conditions |-> Append(acc.conditions, CastText \o parseColumn(key) \o LikeText),
     values     |-> Append(acc.values, <<Percent>> \o value \o <<Percent>>)]

RECURSIVE EqOrLoop(_, _, _, _)
EqOrLoop(acc, m, keys, i) ==
    IF i > Len(keys) THEN acc
    ELSE EqOrLoop(EqOrStep(acc, keys[i], m[keys[i]]), m, keys, i + 1)

RECURSIVE LikeOrLoop(_, _, _, _)
LikeOrLoop(acc, m, keys, i) ==
    IF i > Len(keys) THEN acc
    ELSE LikeOrLoop(LikeOrStep(acc, keys[i], m[keys[i]]), m, keys, i + 1)

\* One Where for each condition instead of one for the group.
OrGroupPerCondition(d, conds, vals) ==
    [d EXCEPT !.wheres =
        @ \o [i \in 1..Len(conds) |->
                 [query |-> <<"(">> \o conds[i] \o <<")">>, args |-> <<vals[i]>>]]]

\* if len(conditions) > 0 { db = db.Where("(" + Join(...) + ")", values...) }
OrGroup(d, conds, vals) ==
    IF Len(conds) > 0
    THEN [d EXCEPT !.wheres =
             Append(@, [query |-> <<"(">> \o JoinStr(conds, OrText) \o <<")">>,
                        args  |-> vals])]
    ELSE d

(***************************************************************************)
(* Pagination arithmetic.                                                  *)
(*                                                                         *)
(* A Go int is a natural number written as its binary digits, the most     *)
(* significant first and none for 0, since a total may need all 63 bits.   *)
(* A float64 is the record of its significand (at most Float64Bits digits) *)
(* and the power of two it is scaled by.  The conversion of an int and the *)
(* division round to the nearest float64, ties to the even significand.    *)
(***************************************************************************)
\* Digits of the significand of a float64.
Float64Bits == 53

RECURSIVE NatToBits(_)
NatToBits(n) == IF n = 0 THEN <<>> ELSE Append(NatToBits(n \div 2), n % 2)

RECURSIVE BitsToNat(_)
BitsToNat(b) ==
    IF b = <<>> THEN 0 ELSE 2 * BitsToNat(SubSeq(b, 1, Len(b) - 1)) + b[Len(b)]

Zeros(k) == [i \in 1..k |-> 0]

\* b + 1
RECURSIVE Inc(_)
Inc(b) ==
    IF b = <<>> THEN <<1>>
    ELSE IF b[Len(b)] = 0 THEN SubSeq(b, 1, Len(b) - 1) \o <<1>>
    ELSE Inc(SubSeq(b, 1, Len(b) - 1)) \o <<0>>

\* The float64 nearest to a value whose first Float64Bits + 1 digits are
\* sig, the last of sig being the digit after the significand, where sticky
\* tells whether anything but zeros follows, and where the last digit of
\* the significand weighs 2^exp.
RoundToFloat64(sig, sticky, exp) ==
    LET mant  == SubSeq(sig, 1, Float64Bits)
        up    == sig[Float64Bits + 1] = 1 /\ (sticky \/ mant[Float64Bits] = 1)
        moved == IF up THEN Inc(mant) ELSE mant
    IN  IF Len(moved) > Float64Bits
        THEN [mant |-> SubSeq(moved, 1, Float64Bits), exp |-> exp + 1]
        ELSE [mant |-> moved, exp |-> exp]

\* float64(n) for an int n >= 0
Float64FromInt(b) ==
    IF Len(b) <= Float64Bits THEN [mant |-> b, exp |-> 0]
    ELSE RoundToFloat64(SubSeq(b, 1, Float64Bits + 1),
                        \E i \in (Float64Bits + 2)..Len(b) : b[i] = 1,
                        Len(b) - Float64Bits)

\* The digits of a float64 that holds a natural number.
Float64Digits(f) == f.mant \o Zeros(f.exp)

\* The long division of the digits a by d, digit i being the next to bring
\* down (a zero after the last digit of a), r the remainder so far, sig the
\* digits of the quotient from its first 1 on, last the place of the last
\* of them, and sticky whether a 1 of the quotient was left out of sig.
RECURSIVE DivideDigits(_, _, _, _, _, _, _)
DivideDigits(a, d, i, r, sig, last, sticky) ==
    IF Len(sig) = Float64Bits + 1 /\ i > Len(a)
    THEN [sig |-> sig, last |-> last, sticky |-> sticky \/ r # 0]
    ELSE LET cur == 2 * r + (IF i <= Len(a) THEN a[i] ELSE 0)
             q   == IF cur >= d THEN 1 ELSE 0
             rem == cur - q * d
         IN  IF Len(sig) = Float64Bits + 1
             THEN DivideDigits(a, d, i + 1, rem, sig, last, sticky \/ q = 1)
             ELSE IF sig = <<>> /\ q = 0
             THEN DivideDigits(a, d, i + 1, rem, sig, last, sticky)
             ELSE DivideDigits(a, d, i + 1, rem, Append(sig, q), i, sticky)

\* x / y for float64 x >= 0 that holds a natural number and float64 y > 0
\* that holds a natural number small enough for TLC's integers.
Float64Div(x, y) ==
    LET a == Float64Digits(x)
        d == BitsToNat(Float64Digits(y))
        q == DivideDigits(a, d, 1, 0, <<>>, 0, FALSE)
    IN  IF a = <<>> THEN [mant |-> <<>>, exp |-> 0]
        ELSE RoundToFloat64(q.sig, q.sticky, Len(a) - (q.last - 1))

\* math.Ceil(f) for f >= 0
Ceil(f) ==
    IF f.exp >= 0 THEN f
    ELSE LET n     == Len(f.mant)
             whole == IF -f.exp >= n THEN <<>> ELSE SubSeq(f.mant, 1, n + f.exp)
             part  == \E i \in 1..n : i > n + f.exp /\ f.mant[i] = 1
         IN  [mant |-> IF part THEN Inc(whole) ELSE whole, exp |-> 0]

\* int(f) for a float64 that holds a natural number below 2^63
IntFromFloat64(f) == Float64Digits(f)

\* Count(resultCount, limit)
Count(total, lim) ==
    IntFromFloat64(Ceil(Float64Div(Float64FromInt(total), Float64FromInt(lim))))

(***************************************************************************)
(* State machine.  A behaviour is one call: the state before it holds the  *)
(* allow-list and the query builder the caller hands in, the state after   *)
(* it the arguments and what the call returned and recorded.               *)
(***************************************************************************)
ColA == <<"a">>
ColX == <<"x">>
AllowLists == {{ColA}, {ColA, ColX}}

\* An error an earlier builder of the chain left on db.
PriorError == "prior error"
NewDB == [errors |-> <<>>, wheres |-> <<>>, orders |-> <<>>]
PriorDB == [NewDB EXCEPT !.errors = <<PriorError>>]

SingleChars == {"a", "x", "1", ":", ","}
MultiChars == {"a", "x", ";", ":", ","}
ColumnChars == {"a", "b", ".", Quote, " "}

NoCall ==
    /\ pc = "ready"
    /\ params = <<>>
    /\ paramMap = EmptyMap
    /\ column = <<>>
    /\ quoted = <<>>
    /\ resultCount = <<>>
    /\ limit = 1
    /\ pageCount = <<>>
    /\ eqParams = <<>>
    /\ likeParams = <<>>
    /\ eqMap = EmptyMap
    /\ likeMap = EmptyMap
    /\ conditions = <<>>
    /\ values = <<>>

\* The tokenizers are handed a builder that an earlier builder of Query has
\* already used.
InitTokens ==
    /\ NoCall
    /\ allowedColumns \in AllowLists
    /\ db = PriorDB

CallParseSingleValueParams ==
    /\ pc = "ready"
    /\ \E n \in 0..MaxLen : \E p \in [1..n -> SingleChars] :
         LET r == parseSingleValueParams(p, allowedColumns)
         IN  /\ params' = p
             /\ paramMap' = r.paramMap
             /\ db' = [db EXCEPT !.errors = @ \o r.errors]
    /\ pc' = "single"
    /\ UNCHANGED <<orVars, allowedColumns, column, quoted, resultCount, limit, pageCount>>

CallParseMultiValueParams ==
    /\ pc = "ready"
    /\ \E n \in 0..MaxLen : \E p \in [1..n -> MultiChars] :
         LET r == parseMultiValueParams(p, allowedColumns)
         IN  /\ params' = p
             /\ paramMap' = r.paramMap
             /\ db' = [db EXCEPT !.errors = @ \o r.errors]
    /\ pc' = "multi"
    /\ UNCHANGED <<orVars, allowedColumns, column, quoted, resultCount, limit, pageCount>>

NextTokens == CallParseSingleValueParams \/ CallParseMultiValueParams

SpecTokens == InitTokens /\ [][NextTokens]_vars

(***************************************************************************)
(* Raw strings handed to the clause builders: clauses key ":" values, the  *)
(* clauses joined by commas and the values by semicolons.                  *)
(***************************************************************************)
TsAug == <<"2", "0", "2", "0", "-", "0", "8", "-", "0", "3", "T", "0", "0", ":", "0", "0", ":", "0", "0", "Z">>
TsSep == <<"2", "0", "2", "0", "-", "0", "9", "-", "0", "3", "T", "0", "0", ":", "0", "0", ":", "0", "0", "+", "0", "2", ":", "0", "0">>
TsFeb30 == <<"2", "0", "2", "0", "-", "0", "2", "-", "3", "0", "T", "0", "0", ":", "0", "0", ":", "0", "0", "Z">>
StrOnlyOne == <<"o", "n", "l", "y", "o", "n", "e">>
BetweenValues == {TsAug, TsSep, TsFeb30, StrOnlyOne}

\* The lists of clauses (a key and its values) that carry n values at most.
RECURSIVE BetweenClauseLists(_)
BetweenClauseLists(n) ==
    {<<>>} \cup
    UNION {{<<[key |-> k, values |-> v]>> \o rest :
               k \in {ColA, ColX},
               v \in [1..c -> BetweenValues],
               rest \in BetweenClauseLists(n - c)} : c \in 1..n}

RenderBetween(list) ==
    Join([i \in 1..Len(list) |->
             list[i].key \o <<":">> \o Join(list[i].values, ";")], ",")

BetweenStrings == {RenderBetween(list) : list \in BetweenClauseLists(MaxBetweenValues)}

SortDirections ==
    {StrAsc, StrDesc, <<"A", "S", "C">>, <<"u", "p", "w", "a", "r", "d">>, <<"a", "s", "c", " ">>, <<>>}

SortClauses == {k \o <<":">> \o d : k \in {ColA, ColX, <<>>}, d \in SortDirections}

SortStrings ==
    UNION {{Join(list, ",") : list \in [1..n -> SortClauses]} : n \in 0..MaxSortClauses}

InitBuilders ==
    /\ NoCall
    /\ allowedColumns \in AllowLists
    /\ db \in {NewDB, PriorDB}

\* parseSearchBetween(params, db, allowedColumns).  When the loop panics
\* the call does not return: pc is "panic" and db is the builder as the
\* panic left it.
CallParseSearchBetween ==
    /\ pc = "ready"
    /\ \E p \in BetweenStrings :
         LET r == parseMultiValueParams(p, allowedColumns)
             entered == [db |-> [db EXCEPT !.errors = @ \o r.errors],
                         panicked |-> FALSE]
         IN  \E keys \in Orders(DOMAIN r.paramMap) :
               LET left == BetweenLoop(entered, r.paramMap, keys, 1)
               IN  /\ params' = p
                   /\ paramMap' = r.paramMap
                   /\ db' = left.db
                   /\ pc' = IF left.panicked THEN "panic" ELSE "between"
    /\ UNCHANGED <<orVars, allowedColumns, column, quoted, resultCount, limit, pageCount>>

NextBetween == CallParseSearchBetween

SpecBetween == InitBuilders /\ [][NextBetween]_vars

\* parseSortBy(params, db, allowedColumns)
CallParseSortBy ==
    /\ pc = "ready"
    /\ \E p \in SortStrings :
         LET r == parseSingleValueParams(p, allowedColumns)
         IN  \E keys \in Orders(DOMAIN r.paramMap) :
               /\ params' = p
               /\ paramMap' = r.paramMap
               /\ db' = SortLoop([db EXCEPT !.errors = @ \o r.errors],
                                 r.paramMap, keys, 1)
    /\ pc' = "sort"
    /\ UNCHANGED <<orVars, allowedColumns, column, quoted, resultCount, limit, pageCount>>

NextSort == CallParseSortBy

SpecSort == InitBuilders /\ [][NextSort]_vars

\* The clauses of the raw strings handed to parseOr: a column, a colon and
\* a value that may be empty, or a column alone.
OrClauses ==
    {k \o <<":">> \o v : k \in {ColA, ColX}, v \in {<<"1">>, <<"x">>, <<>>}}
    \cup {ColA}

OrLists(n) == UNION {[1..k -> OrClauses] : k \in 0..n}

\* The pairs of raw strings that carry MaxOrClauses clauses at most.
OrInputs ==
    UNION {{<<Join(e, ","), Join(l, ",")>> :
               e \in [1..k -> OrClauses], l \in OrLists(MaxOrClauses - k)} :
           k \in 0..MaxOrClauses}

\* parseOr(eqParams, likeParams, db, allowedColumns)
CallParseOr ==
    /\ pc = "ready"
    /\ \E in \in OrInputs :
         LET eq   == parseSingleValueParams(in[1], allowedColumns)
             like == parseSingleValueParams(in[2], allowedColumns)
         IN  \E eqKeys \in Orders(DOMAIN eq.paramMap) :
               \E likeKeys \in Orders(DOMAIN like.paramMap) :
                 LET none  == [conditions |-> <<>>, values |-> <<>>]
                     eqs   == EqOrLoop(none, eq.paramMap, eqKeys, 1)
                     all   == LikeOrLoop(eqs, like.paramMap, likeKeys, 1)
                 IN  /\ eqParams' = in[1]
                     /\ likeParams' = in[2]
                     /\ eqMap' = eq.paramMap
                     /\ likeMap' = like.paramMap
                     /\ conditions' = all.conditions
                     /\ values' = all.values
                     /\ db' = OrGroup([db EXCEPT !.errors = @ \o eq.errors \o like.errors],
                                      all.conditions, all.values)
    /\ pc' = "or"
    /\ UNCHANGED <<allowedColumns, params, paramMap, column, quoted,
                   resultCount, limit, pageCount>>

NextOr == CallParseOr

SpecOr == InitBuilders /\ [][NextOr]_vars

\* The exponents of the powers of two next to which large totals are drawn:
\* around the last consecutive natural number of float64, and the top of a
\* 64-bit int.
LargeExponents == {Float64Bits - 1, Float64Bits, Float64Bits + 1, 62}

Totals ==
    {NatToBits(n) : n \in 0..MaxTotal}
    \cup {<<1>> \o Zeros(e - 2) \o <<i, j>> : e \in LargeExponents, i \in {0, 1}, j \in {0, 1}}

InitCount ==
    /\ NoCall
    /\ allowedColumns = {}
    /\ db = NewDB

CallCount ==
    /\ pc = "ready"
    /\ \E total \in Totals : \E lim \in 1..MaxLimit :
         /\ resultCount' = total
         /\ limit' = lim
         /\ pageCount' = Count(total, NatToBits(lim))
    /\ pc' = "count"
    /\ UNCHANGED <<orVars, allowedColumns, db, params, paramMap, column, quoted>>

NextCount == CallCount

SpecCount == InitCount /\ [][NextCount]_vars

InitColumn ==
    /\ NoCall
    /\ allowedColumns = {}
    /\ db = NewDB

CallParseColumn ==
    /\ pc = "ready"
    /\ \E n \in 0..MaxColumnLen : \E c \in [1..n -> ColumnChars] :
         /\ column' = c
         /\ quoted' = parseColumn(c)
    /\ pc' = "column"
    /\ UNCHANGED <<orVars, allowedColumns, db, params, paramMap, resultCount, limit, pageCount>>

\* parseColumn applied to its own result.
CallParseColumnAgain ==
    /\ pc = "column"
    /\ quoted' = parseColumn(quoted)
    /\ pc' = "requoted"
    /\ UNCHANGED <<orVars, allowedColumns, db, params, paramMap, column, resultCount,
                   limit, pageCount>>

NextColumn == CallParseColumn \/ CallParseColumnAgain

SpecColumn == InitColumn /\ [][NextColumn]_vars

(***************************************************************************)
(* Vocabulary of the tokenizer claims, stated on the raw string itself:    *)
(* the clauses are the stretches between commas, and a clause is read      *)
(* through the positions of its colons.                                    *)
(***************************************************************************)
NumOf(s, c) == Cardinality({i \in 1..Len(s) : s[i] = c})

\* The clauses of p, each under the position just before it (0 or a comma).
ClausesOf(p) ==
    LET commas == {i \in 1..Len(p) : p[i] = ","}
        stops  == commas \cup {Len(p) + 1}
    IN  [cut \in (IF p = <<>> THEN {} ELSE {0} \cup commas) |->
            SubSeq(p, cut + 1, Least({i \in stops : i > cut}) - 1)]

KeyOf(cl) == SubSeq(cl, 1, Least({i \in 1..Len(cl) : cl[i] = ":"}) - 1)

RestOf(cl) == SubSeq(cl, Least({i \in 1..Len(cl) : cl[i] = ":"}) + 1, Len(cl))

\* "malformed": the split does not give exactly 2 parts, or the key is
\* empty; "empty": well-formed with nothing after the colon; otherwise
\* "accepted" or "disallowed" by the allow-list.
KindOf(cl, multi, allowed) ==
    LET colons == {i \in 1..Len(cl) : cl[i] = ":"}
    IN  IF colons = {} \/ 1 \in colons \/ (~multi /\ Cardinality(colons) # 1)
        THEN "malformed"
        ELSE IF Least(colons) = Len(cl) THEN "empty"
        ELSE IF SubSeq(cl, 1, Least(colons) - 1) \in allowed THEN "accepted"
        ELSE "disallowed"

Tokenized == pc \in {"single", "multi"}

IsMulti == pc = "multi"

\* The kind of each clause of params, for the tokenizer that was called.
Kinds ==
    LET clause == ClausesOf(params)
    IN  [cut \in DOMAIN clause |-> KindOf(clause[cut], IsMulti, allowedColumns)]

Of(kinds, kind) == {cut \in DOMAIN kinds : kinds[cut] = kind}

\* The errors recorded on db after those it was handed with.
Recorded ==
    IF db.errors # <<>> /\ db.errors[1] = PriorError THEN Tail(db.errors)
    ELSE db.errors

CountOf(errs, e) == Cardinality({i \in 1..Len(errs) : errs[i] = e})

Str_a1x1 == <<"a", ":", "1", ",", "x", ":", "1">>

(***************************************************************************)
(* C1.  Allow-list boundary: every key of the mapping returned by          *)
(* parseSingleValueParams and parseMultiValueParams is in the allow-list,  *)
(* and the "column not allowed" errors recorded are exactly one per        *)
(* well-formed clause with a non-empty value whose key is not allowed.     *)
(***************************************************************************)
C1_AllowListBoundary ==
    Tokenized =>
        LET clause == ClausesOf(params)
            kinds  == Kinds
        IN  /\ DOMAIN paramMap \subseteq allowedColumns
            /\ CountOf(Recorded, ErrColumnNotAllowed)
                 = Cardinality(Of(kinds, "disallowed"))
            /\ \A cut \in Of(kinds, "disallowed") :
                 KeyOf(clause[cut]) \notin DOMAIN paramMap

\* "a:1,x:1" against {a} yields {a:"1"} plus one ColumnNotAllowed error.
C1_Witness ==
    /\ pc = "single"
    /\ params = Str_a1x1
    /\ allowedColumns = {ColA}
    /\ DOMAIN paramMap = {ColA}
    /\ paramMap[ColA] = <<"1">>
    /\ Recorded = <<ErrColumnNotAllowed>>

(***************************************************************************)
(* C2.  Errors are accumulated, not thrown: a call of a tokenizer keeps    *)
(* the errors db already holds, adds one "cannot parse invalid format"     *)
(* error per malformed clause and one "column not allowed" error per       *)
(* disallowed-column clause and nothing else, whatever came earlier in the *)
(* raw string, and every well-formed allowed clause with a non-empty value *)
(* has its key in the returned mapping.                                    *)
(***************************************************************************)
C2_ErrorsAccumulated ==
    /\ [](Tokenized =>
            LET clause == ClausesOf(params)
                kinds  == Kinds
                bad    == Cardinality(Of(kinds, "malformed"))
                barred == Cardinality(Of(kinds, "disallowed"))
            IN  /\ Len(Recorded) = bad + barred
                /\ CountOf(Recorded, ErrInvalidFormat) = bad
                /\ CountOf(Recorded, ErrColumnNotAllowed) = barred
                /\ \A cut \in Of(kinds, "accepted") :
                     KeyOf(clause[cut]) \in DOMAIN paramMap)
    /\ [][/\ Len(db'.errors) >= Len(db.errors)
          /\ SubSeq(db'.errors, 1, Len(db.errors)) = db.errors]_vars

\* "xxx,a:1" yields {a:"1"} plus exactly one MalformedClause error: the
\* clause after the malformed one is still parsed.
C2_Witness ==
    /\ pc = "single"
    /\ params = <<"x", "x", "x", ",", "a", ":", "1">>
    /\ DOMAIN paramMap = {ColA}
    /\ paramMap[ColA] = <<"1">>
    /\ db.errors = <<PriorError, ErrInvalidFormat>>

(***************************************************************************)
(* C5.  Empty input is not an error: an empty raw string yields an empty   *)
(* mapping and no error; a clause with a non-empty key and an empty value  *)
(* records no error whether or not its key is allowed; a clause with an    *)
(* empty key always records a malformed error.                             *)
(***************************************************************************)
\* key ":" and nothing after it, the key non-empty.
IsEmptyValueClause(cl) == Len(cl) >= 2 /\ cl[Len(cl)] = ":" /\ NumOf(cl, ":") = 1

IsEmptyKeyClause(cl) == cl # <<>> /\ cl[1] = ":"

C5_EmptyInputNotAnError ==
    Tokenized =>
        LET clause     == ClausesOf(params)
            emptyValue == {cut \in DOMAIN clause : IsEmptyValueClause(clause[cut])}
            emptyKey   == {cut \in DOMAIN clause : IsEmptyKeyClause(clause[cut])}
        IN  /\ params = <<>> => paramMap = EmptyMap /\ Recorded = <<>>
            /\ Len(Recorded) <= Cardinality(DOMAIN clause \ emptyValue)
            /\ CountOf(Recorded, ErrInvalidFormat) >= Cardinality(emptyKey)
            /\ DOMAIN clause = emptyValue \cup emptyKey =>
                 /\ paramMap = EmptyMap
                 /\ Recorded = [i \in 1..Cardinality(emptyKey) |-> ErrInvalidFormat]

\* "a:,x:" against {a}: both clauses are skipped silently.
C5_Witness ==
    /\ pc = "multi"
    /\ params = <<"a", ":", ",", "x", ":">>
    /\ allowedColumns = {ColA}
    /\ paramMap = EmptyMap
    /\ Recorded = <<>>

(***************************************************************************)
(* C10.  Duplicate keys are last-write-wins: the returned mapping has      *)
(* exactly the keys of the accepted clauses, each with the value of the    *)
(* last accepted clause carrying that key; no error is recorded for the    *)
(* duplication, and a later skipped clause does not erase the value.       *)
(***************************************************************************)
ValueOf(cl) == IF IsMulti THEN Split(RestOf(cl), ";") ELSE RestOf(cl)

C10_LastWriteWins ==
    Tokenized =>
        LET clause   == ClausesOf(params)
            kinds    == Kinds
            accepted == Of(kinds, "accepted")
            key      == [cut \in accepted |-> KeyOf(clause[cut])]
            Last(k)  == Greatest({cut \in accepted : key[cut] = k})
        IN  /\ DOMAIN paramMap = {key[cut] : cut \in accepted}
            /\ \A k \in DOMAIN paramMap : paramMap[k] = ValueOf(clause[Last(k)])
            /\ Len(Recorded) = Cardinality(Of(kinds, "malformed"))
                                 + Cardinality(Of(kinds, "disallowed"))

\* "a:1,a:x": the second clause overwrites the first, without an error.
C10_Witness ==
    /\ pc = "single"
    /\ params = <<"a", ":", "1", ",", "a", ":", "x">>
    /\ DOMAIN paramMap = {ColA}
    /\ paramMap[ColA] = <<"x">>
    /\ Recorded = <<>>

\* "a:1,a:": the skipped empty-value clause leaves the earlier value.
C10_SkippedLaterClause ==
    /\ Tokenized
    /\ params = <<"a", ":", "1", ",", "a", ":">>
    => paramMap = [k \in {ColA} |-> IF IsMulti THEN <<(<<"1">>)>> ELSE <<"1">>]

(***************************************************************************)
(* C7.  Identifier quoting is idempotent: for every non-empty              *)
(* single-segment identifier, also one that carries quote characters or    *)
(* surrounding white space, parseColumn applied to its own result returns  *)
(* that result unchanged.                                                  *)
(***************************************************************************)
IsSingleSegment(c) == c # <<>> /\ NumOf(c, ".") = 0

C7_QuotingIdempotent ==
    [][(pc = "column" /\ pc' = "requoted" /\ IsSingleSegment(column)) =>
          quoted' = quoted]_vars

\* An identifier that is already quoted and has white space around it.
C7_Witness ==
    /\ pc = "requoted"
    /\ column = <<" ", Quote, "a", Quote, " ">>
    /\ quoted = <<Quote, "a", Quote>>

(***************************************************************************)
(* C8.  Identifier quoting preserves structure and is injection-safe: the  *)
(* result has one token per dot-separated segment of the input, in order;  *)
(* each token is the segment without its quote characters and surrounding  *)
(* white space, wrapped in exactly one pair of quote characters, with no   *)
(* quote character inside; an empty segment gives the quoted-empty token.  *)
(***************************************************************************)
C8_QuotingPreservesStructure ==
    pc = "column" =>
        LET segments == Split(column, ".")
            tokens   == Split(quoted, ".")
        IN  /\ Len(tokens) = Len(segments)
            /\ NumOf(quoted, Quote) = 2 * Len(segments)
            /\ \A i \in 1..Len(tokens) :
                 LET tok   == tokens[i]
                     inner == SubSeq(tok, 2, Len(tok) - 1)
                 IN  /\ Len(tok) >= 2
                     /\ tok[1] = Quote
                     /\ tok[Len(tok)] = Quote
                     /\ NumOf(inner, Quote) = 0
                     /\ inner = TrimSpace(RemoveQuotes(segments[i]))

\* quote("a..b") has three segments, the middle one empty-quoted.
C8_Witness ==
    /\ pc = "column"
    /\ column = <<"a", ".", ".", "b">>
    /\ quoted = <<Quote, "a", Quote, ".", Quote, Quote, ".", Quote, "b", Quote>>

(***************************************************************************)
(* Vocabulary of the clause-builder claims.                                *)
(***************************************************************************)
\* The values of BetweenValues that are RFC-3339 timestamps.
ValidTimestamps == {TsAug, TsSep}

Quoted(key) == <<Quote>> \o key \o <<Quote>>

NumWheres(query) == Cardinality({i \in 1..Len(db.wheres) : db.wheres[i].query = query})

(***************************************************************************)
(* C3.  Between with a wrong value count: when an allowed column carries   *)
(* a value sequence of a length other than 2, length 1 included,           *)
(* parseSearchBetween records one "not exactly two values" error for it,   *)
(* still binds a BETWEEN predicate for it, and returns the query builder   *)
(* with the error accumulated.                                             *)
(***************************************************************************)
C3_BetweenWrongValueCount ==
    pc \in {"between", "panic"} =>
        LET wrong == {k \in DOMAIN paramMap : Len(paramMap[k]) # 2}
        IN  wrong # {} =>
              /\ pc = "between"
              /\ CountOf(Recorded, ErrNotTwoValues) = Cardinality(wrong)
              /\ \A k \in wrong : NumWheres(Quoted(k) \o BetweenText) = 1

\* What the code does do: with three values or more the error is recorded,
\* the first two values are bound and the call returns; with one value it
\* panics once the error is recorded.
C3_AsTheCodeDoes ==
    pc \in {"between", "panic"} =>
        LET wrong == {k \in DOMAIN paramMap : Len(paramMap[k]) # 2}
            short == {k \in DOMAIN paramMap : Len(paramMap[k]) < 2}
        IN  /\ pc = "panic" <=> short # {}
            /\ pc = "between" =>
                 /\ CountOf(Recorded, ErrNotTwoValues) = Cardinality(wrong)
                 /\ \A k \in wrong : NumWheres(Quoted(k) \o BetweenText) = 1
            /\ pc = "panic" =>
                 /\ CountOf(Recorded, ErrNotTwoValues) >= 1
                 /\ \A k \in short : NumWheres(Quoted(k) \o BetweenText) = 0

C4_BothErrors ==
    /\ pc = "between"
    /\ DOMAIN paramMap = {ColA}
    /\ paramMap[ColA] = <<StrOnlyOne, TsFeb30, TsAug>>
    /\ Recorded = <<ErrNotTwoValues, ErrInvalidDateTime>>

\* Two values of which neither parses: one error, not one per side.
C4_OneErrorForBothSides ==
    /\ pc = "between"
    /\ DOMAIN paramMap = {ColA}
    /\ paramMap[ColA] = <<StrOnlyOne, TsFeb30>>
    /\ Recorded = <<ErrInvalidDateTime>>

(***************************************************************************)
(* C6.  Sort direction: for every entry of the parsed sortBy mapping,      *)
(* parseSortBy appends exactly one ordering clause, the quoted column      *)
(* followed by ASC or DESC, when the value is exactly "asc" or "desc", and *)
(* otherwise records exactly one "order not asc or desc" error and appends *)
(* no ordering clause for the column.                                      *)
(***************************************************************************)
NumOrders(order) == Cardinality({i \in 1..Len(db.orders) : db.orders[i] = order})

C6_SortDirection ==
    pc = "sort" =>
        LET entries == DOMAIN paramMap
            named   == {k \in entries : paramMap[k] \in {StrAsc, StrDesc}}
        IN  /\ Len(db.orders) = Cardinality(named)
            /\ CountOf(Recorded, ErrOrderNotAscDesc) = Cardinality(entries \ named)
            /\ Len(db.orders) + CountOf(Recorded, ErrOrderNotAscDesc)
                 = Cardinality(entries)
            /\ \A k \in entries :
                 /\ NumOrders(Quoted(k) \o AscText)
                      = IF paramMap[k] = StrAsc THEN 1 ELSE 0
                 /\ NumOrders(Quoted(k) \o DescText)
                      = IF paramMap[k] = StrDesc THEN 1 ELSE 0

\* "a:asc,x:desc" against {a, x}: two ordering clauses and no error.
C6_Witness ==
    /\ pc = "sort"
    /\ params = ColA \o <<":">> \o StrAsc \o <<",">> \o ColX \o <<":">> \o StrDesc
    /\ db.orders = <<Quoted(ColA) \o AscText, Quoted(ColX) \o DescText>>
    /\ Recorded = <<>>

\* "a:upward": one "order not asc or desc" error and no ordering clause.
C6_Upward ==
    /\ pc = "sort"
    /\ params = ColA \o <<":">> \o <<"u", "p", "w", "a", "r", "d">>
    /\ db.orders = <<>>
    /\ Recorded = <<ErrOrderNotAscDesc>>

(***************************************************************************)
(* C9.  Page count: for all total >= 0 and limit > 0, Count(total, limit)  *)
(* is the ceiling of total / limit, the least n with n * limit >= total;   *)
(* Count(0, limit) = 0, Count(1, 10) = 1, Count(20, 10) = 2 and            *)
(* Count(21, 10) = 3.                                                      *)
(***************************************************************************)
\* The exact quotient and remainder of the digits a by d.
RECURSIVE LongDivision(_, _, _, _, _)
LongDivision(a, d, i, r, q) ==
    IF i > Len(a) THEN [quotient |-> q, remainder |-> r]
    ELSE LET cur == 2 * r + a[i]
         IN  IF cur >= d
             THEN LongDivision(a, d, i + 1, cur - d, Append(q, 1))
             ELSE LongDivision(a, d, i + 1, cur, IF q = <<>> THEN q ELSE Append(q, 0))

Ceiling(a, d) ==
    LET x == LongDivision(a, d, 1, 0, <<>>)
    IN  IF x.remainder = 0 THEN x.quotient ELSE Inc(x.quotient)

C9_PageCount ==
    pc = "count" => pageCount = Ceiling(resultCount, limit)

\* The same for the totals a float64 holds exactly, those up to
\* 2^Float64Bits: there Count is the ceiling.
C9_PageCountOfExactTotals ==
    (pc = "count" /\ (Len(resultCount) <= Float64Bits
                        \/ resultCount = <<1>> \o Zeros(Float64Bits)))
        => /\ pageCount = Ceiling(resultCount, limit)
           /\ Len(resultCount) <= 20 =>
                BitsToNat(pageCount)
                  = (BitsToNat(resultCount) + limit - 1) \div limit

\* Count(21, 10) = 3
C9_TwentyOneByTen ==
    /\ pc = "count"
    /\ resultCount = NatToBits(21)
    /\ limit = 10
    /\ pageCount = NatToBits(3)

(***************************************************************************)
(* C11.  Merged OR group: parseOr appends at most one predicate for the    *)
(* pair (searchEqOr, searchLikeOr): none when both parsed mappings are     *)
(* empty, and otherwise a single parenthesized group whose OR-ed           *)
(* conditions number exactly |eqMap| + |likeMap|, all equality conditions  *)
(* before all like conditions, and whose bound values stand in the         *)
(* positions of their conditions, the raw value for an equality and        *)
(* %value% for a like.                                                     *)
(***************************************************************************)
\* The places of s where sub starts.
PlacesOf(s, sub) ==
    {i \in 1..(Len(s) - Len(sub) + 1) : SubSeq(s, i, i + Len(sub) - 1) = sub}

C11_MergedOrGroup ==
    pc = "or" =>
        LET n == Cardinality(DOMAIN eqMap)
            m == Cardinality(DOMAIN likeMap)
        IN  /\ Len(db.wheres) <= 1
            /\ db.wheres = <<>> <=> n + m = 0
            /\ n + m > 0 =>
                 LET group  == db.wheres[1].query
                     args   == db.wheres[1].args
                     inner  == SubSeq(group, 2, Len(group) - 1)
                     eqs    == PlacesOf(group, EqText)
                     likes  == PlacesOf(group, LikeText)
                 IN  /\ group[1] = "(" /\ group[Len(group)] = ")"
                     /\ NumOf(inner, "(") = n + m /\ NumOf(inner, ")") = n + m
                     /\ inner = JoinStr(conditions, OrText)
                     /\ Len(conditions) = n + m
                     /\ Cardinality(PlacesOf(group, OrText)) = n + m - 1
                     /\ Cardinality(eqs) = n /\ Cardinality(likes) = m
                     /\ \A i \in eqs : \A j \in likes : i < j
                     /\ Len(args) = n + m
                     /\ args = values
                     /\ \A k \in DOMAIN eqMap :
                          \E i \in 1..n :
                             /\ conditions[i] = CastText \o Quoted(k) \o EqText
                             /\ args[i] = eqMap[k]
                     /\ \A k \in DOMAIN likeMap :
                          \E i \in (n + 1)..(n + m) :
                             /\ conditions[i] = CastText \o Quoted(k) \o LikeText
                             /\ args[i] = <<Percent>> \o likeMap[k] \o <<Percent>>

\* searchEqOr = "a:1,x:x" and searchLikeOr = "a:x" against {a, x}, the
\* entries of eqMap taken in the order x, a: one group of three conditions.
C11_Witness ==
    /\ pc = "or"
    /\ eqParams = <<"a", ":", "1", ",", "x", ":", "x">>
    /\ likeParams = <<"a", ":", "x">>
    /\ Len(db.wheres) = 1
    /\ db.wheres[1].query
         = <<"(">> \o CastText \o Quoted(ColX) \o EqText \o OrText
                   \o CastText \o Quoted(ColA) \o EqText \o OrText
                   \o CastText \o Quoted(ColA) \o LikeText \o <<")">>
    /\ db.wheres[1].args = <<(<<"x">>), (<<"1">>), (<<"%", "x", "%">>)>>
    /\ Recorded = <<>>

\* Clauses that leave both mappings empty: nothing is appended.
C11_NoGroup ==
    /\ pc = "or"
    /\ eqParams = <<"a", ":">>
    /\ likeParams = <<"x", ":", "1">>
    /\ allowedColumns = {ColA}
    /\ db.wheres = <<>>
    /\ Recorded = <<ErrColumnNotAllowed>>

(***************************************************************************)
(* C12.  Colon splitting differs by operator family.  In                   *)
(* parseSingleValueParams a clause is split on every ":": a clause with    *)
(* more than one ":" is malformed, records one "cannot parse invalid       *)
(* format" error and adds no entry.  In parseMultiValueParams a clause is  *)
(* split on the first ":" only: all that follows it, further ":"           *)
(* included, is the value part, which is split on ";" into the ordered     *)
(* sequence of values.                                                     *)
(***************************************************************************)
Colons(cl) == {i \in 1..Len(cl) : cl[i] = ":"}

C12_SingleValueManyColons ==
    /\ pc = "single"
    /\ params = <<"a", ":", "1", ":", "1">>
    /\ paramMap = EmptyMap
    /\ Recorded = <<ErrInvalidFormat>>

=============================================================================
